---------------------------- MODULE Spec2Model ----------------------------
(***************************************************************************)
(* A model of Chess.py: the move validator, the attack detector, the move  *)
(* executor, the terminal-state detector and the main game loop.           *)
(*                                                                         *)
(* A board is a function board[r][c] with r, c in 0..7 (row 0 is rank 8),  *)
(* a cell is one of the strings "K".."P" (white), "k".."p" (black), ".".   *)
(* Python's None is the empty tuple.  A list of two flags [ks, qs] is the  *)
(* tuple <<ks, qs>>: Python index 0 is TLA+ index 1.                       *)
(***************************************************************************)
EXTENDS Integers, Sequences, FiniteSets

None == <<>>

Rows == 0..7
Squares == {<<r, c>> : r \in Rows, c \in Rows}

WhitePieces == {"K", "Q", "R", "B", "N", "P"}
BlackPieces == {"k", "q", "r", "b", "n", "p"}

\* str.upper() and str.lower() on a one-character cell
upper(ch) ==
    CASE ch = "k" -> "K" [] ch = "q" -> "Q" [] ch = "r" -> "R"
      [] ch = "b" -> "B" [] ch = "n" -> "N" [] ch = "p" -> "P"
      [] OTHER -> ch

lower(ch) ==
    CASE ch = "K" -> "k" [] ch = "Q" -> "q" [] ch = "R" -> "r"
      [] ch = "B" -> "b" [] ch = "N" -> "n" [] ch = "P" -> "p"
      [] OTHER -> ch

abs(x) == IF x < 0 THEN -x ELSE x

InSeq(x, s) == \E i \in 1..Len(s) : s[i] = x

(***************************************************************************)
(* Precomputed piece moves                                                 *)
(***************************************************************************)
in_bounds(r, c) == 0 <= r /\ r < 8 /\ 0 <= c /\ c < 8

KnightOffsets ==
    << <<-2, -1>>, <<-2, 1>>, <<-1, -2>>, <<-1, 2>>,
       <<1, -2>>, <<1, 2>>, <<2, -1>>, <<2, 1>> >>

KingOffsets ==
    << <<-1, -1>>, <<-1, 0>>, <<-1, 1>>,
       <<0, -1>>,             <<0, 1>>,
       <<1, -1>>,  <<1, 0>>,  <<1, 1>> >>

\* the squares at the given offsets of sq, on the board or not
OffsetMoves_bounds_not_tested(offsets, sq) ==
    [i \in 1..Len(offsets) |-> <<sq[1] + offsets[i][1], sq[2] + offsets[i][2]>>]

\* the in-bounds squares at the given offsets of sq, in the offsets' order
OffsetMoves(offsets, sq) ==
    LET InB(t) == in_bounds(t[1], t[2])
    IN SelectSeq([i \in 1..Len(offsets) |->
                     <<sq[1] + offsets[i][1], sq[2] + offsets[i][2]>>], InB)

build_knight_moves == [sq \in Squares |-> OffsetMoves(KnightOffsets, sq)]

build_king_moves == [sq \in Squares |-> OffsetMoves(KingOffsets, sq)]

rook_dirs == << <<1, 0>>, <<-1, 0>>, <<0, 1>>, <<0, -1>> >>
bishop_dirs == << <<1, 1>>, <<1, -1>>, <<-1, 1>>, <<-1, -1>> >>

\* the while loop of build_sliding_moves: squares from (rr, cc) to the edge
RECURSIVE Ray(_, _, _, _)
Ray(rr, cc, dr, dc) ==
    IF in_bounds(rr, cc)
    THEN <<<<rr, cc>>>> \o Ray(rr + dr, cc + dc, dr, dc)
    ELSE <<>>

Rays(dirs, sq) ==
    [i \in 1..Len(dirs) |->
        Ray(sq[1] + dirs[i][1], sq[2] + dirs[i][2], dirs[i][1], dirs[i][2])]

build_sliding_moves ==
    [rook |-> [sq \in Squares |-> Rays(rook_dirs, sq)],
     bishop |-> [sq \in Squares |-> Rays(bishop_dirs, sq)]]

KNIGHT_MOVES == build_knight_moves
KING_MOVES == build_king_moves
ROOK_SLIDES == build_sliding_moves.rook
BISHOP_SLIDES == build_sliding_moves.bishop

(***************************************************************************)
(* Board setup and utilities                                               *)
(***************************************************************************)
RowOf(s) == [c \in Rows |-> s[c + 1]]

STARTING_BOARD ==
    [r \in Rows |->
        CASE r = 0 -> RowOf(<<"r", "n", "b", "q", "k", "b", "n", "r">>)
          [] r = 1 -> RowOf(<<"p", "p", "p", "p", "p", "p", "p", "p">>)
          [] r = 6 -> RowOf(<<"P", "P", "P", "P", "P", "P", "P", "P">>)
          [] r = 7 -> RowOf(<<"R", "N", "B", "Q", "K", "B", "N", "R">>)
          [] OTHER -> RowOf(<<".", ".", ".", ".", ".", ".", ".", ".">>)]

CASTLE_RIGHTS == [white |-> <<TRUE, TRUE>>, black |-> <<TRUE, TRUE>>]

is_white(piece) == piece \in WhitePieces

is_black(piece) == piece \in BlackPieces

get_piece_color(piece) ==
    IF piece = "." THEN "None"
    ELSE IF is_white(piece) THEN "white" ELSE "black"


\* temp = board: the same list of rows, not a copy of it
copy_board_same_list(board) ==
    [shared |-> TRUE, rows |-> [r \in Rows |-> [c \in Rows |-> board[r][c]]]]

\* The result names the storage it occupies: shared is FALSE for a new list
\* of new rows (row[:] for each row), so that a write to it is not a write
\* to the argument.
copy_board(board) ==
    [shared |-> FALSE, rows |-> [r \in Rows |-> [c \in Rows |-> board[r][c]]]]

\* temp_cr = castling_rights: the same dictionary, not a copy of it
copy_rights_same_dict(castling_rights) ==
    [shared |-> TRUE,
     dict |-> [white |-> IF castling_rights # None
                         THEN castling_rights["white"] ELSE <<TRUE, TRUE>>,
               black |-> IF castling_rights # None
                         THEN castling_rights["black"] ELSE <<TRUE, TRUE>>]]

\* {"white": castling_rights["white"][:] if castling_rights else [True, True], ...}
copy_rights(castling_rights) ==
    [shared |-> FALSE,
     dict |-> [white |-> IF castling_rights # None
                         THEN castling_rights["white"] ELSE <<TRUE, TRUE>>,
               black |-> IF castling_rights # None
                         THEN castling_rights["black"] ELSE <<TRUE, TRUE>>]]

\* board[r][c] = v
Put(board, r, c, v) == [board EXCEPT ![r][c] = v]

\* what the caller's object holds after a callee wrote `written` to `copy`
After(original, copy, written) == IF copy.shared THEN written ELSE original

(***************************************************************************)
(* Check logic                                                             *)
(***************************************************************************)
\* find_king_position that looks for the other color's king
find_king_position_other_color(board, color) ==
    LET king_char == IF color = "white" THEN "k" ELSE "K"
        ks == {sq \in Squares : board[sq[1]][sq[2]] = king_char}
    IN IF ks = {} THEN None
       ELSE CHOOSE k \in ks :
              \A o \in ks : k[1] < o[1] \/ (k[1] = o[1] /\ k[2] <= o[2])

find_king_position(board, color) ==
    LET king_char == IF color = "white" THEN "K" ELSE "k"
        ks == {sq \in Squares : board[sq[1]][sq[2]] = king_char}
    IN IF ks = {} THEN None
       ELSE CHOOSE k \in ks :
              \A o \in ks : k[1] < o[1] \/ (k[1] = o[1] /\ k[2] <= o[2])

\* The answers of the promotion-decision provider, and the argument passed
\* where no call of it can happen.
PromotionPieces == {"Q", "R", "B", "N"}
NoChoice == "."

RECURSIVE is_valid_move(_, _, _, _, _, _, _, _)

\* the attack detector asking for the check of the simulated move as well
raw_mode_with_check ==
    [en_passant_target |-> None, castling_rights |-> None, checking_check |-> TRUE]

\* "en_passant_target=None, castling_rights=None, checking_check=False":
\* the mode in which square_attacked_by calls is_valid_move
raw_mode ==
    [en_passant_target |-> None, castling_rights |-> None, checking_check |-> FALSE]

square_attacked_by(board, r, c, color) ==
    \E row \in Rows, col \in Rows :
        LET piece == board[row][col]
        IN /\ piece # "."
           /\ get_piece_color(piece) = color
           /\ is_valid_move(board, <<row, col>>, <<r, c>>, color = "white",
                            raw_mode.en_passant_target, raw_mode.castling_rights,
                            raw_mode.checking_check, NoChoice).ok

in_check(board, color) ==
    LET king_pos == find_king_position(board, color)
        opponent == IF color = "black" THEN "white" ELSE "black"
    IN IF king_pos = None THEN FALSE
       ELSE square_attacked_by(board, king_pos[1], king_pos[2], opponent)

(***************************************************************************)
(* Piece rules                                                             *)
(***************************************************************************)
\* valid_pawn_move whose single step does not ask for an empty square
valid_pawn_move_pushes_onto_pieces(board, start, end, turn_white, en_passant_target) ==
    LET r1 == start[1]
        c1 == start[2]
        r2 == end[1]
        c2 == end[2]
        direction == IF turn_white THEN -1 ELSE 1
        start_row == IF turn_white THEN 6 ELSE 1
        enemy_color == IF turn_white THEN "black" ELSE "white"
    IN IF c1 = c2 /\ r2 = r1 + direction THEN TRUE
       ELSE IF /\ c1 = c2 /\ r1 = start_row /\ r2 = r1 + 2 * direction
               /\ board[r1 + direction][c1] = "." /\ board[r2][c2] = "."
            THEN TRUE
       ELSE IF abs(c2 - c1) = 1 /\ r2 = r1 + direction
            THEN IF board[r2][c2] # "." /\ get_piece_color(board[r2][c2]) = enemy_color
                 THEN TRUE
                 ELSE /\ en_passant_target # None
                      /\ <<r2, c2>> = en_passant_target
                      /\ board[r2][c2] = "."
       ELSE FALSE

\* valid_pawn_move with the starting rows of the two colors exchanged
valid_pawn_move_rows_exchanged(board, start, end, turn_white, en_passant_target) ==
    LET r1 == start[1]
        c1 == start[2]
        r2 == end[1]
        c2 == end[2]
        direction == IF turn_white THEN -1 ELSE 1
        start_row == IF turn_white THEN 1 ELSE 6
        enemy_color == IF turn_white THEN "black" ELSE "white"
    IN IF c1 = c2 /\ r2 = r1 + direction /\ board[r2][c2] = "." THEN TRUE
       ELSE IF /\ c1 = c2 /\ r1 = start_row /\ r2 = r1 + 2 * direction
               /\ board[r1 + direction][c1] = "." /\ board[r2][c2] = "."
            THEN TRUE
       ELSE IF abs(c2 - c1) = 1 /\ r2 = r1 + direction
            THEN IF board[r2][c2] # "." /\ get_piece_color(board[r2][c2]) = enemy_color
                 THEN TRUE
                 ELSE /\ en_passant_target # None
                      /\ <<r2, c2>> = en_passant_target
                      /\ board[r2][c2] = "."
       ELSE FALSE

\* valid_pawn_move that asks only whether an en-passant target is set
valid_pawn_move_any_target(board, start, end, turn_white, en_passant_target) ==
    LET r1 == start[1]
        c1 == start[2]
        r2 == end[1]
        c2 == end[2]
        direction == IF turn_white THEN -1 ELSE 1
        start_row == IF turn_white THEN 6 ELSE 1
        enemy_color == IF turn_white THEN "black" ELSE "white"
    IN IF c1 = c2 /\ r2 = r1 + direction /\ board[r2][c2] = "." THEN TRUE
       ELSE IF /\ c1 = c2 /\ r1 = start_row /\ r2 = r1 + 2 * direction
               /\ board[r1 + direction][c1] = "." /\ board[r2][c2] = "."
            THEN TRUE
       ELSE IF abs(c2 - c1) = 1 /\ r2 = r1 + direction
            THEN IF board[r2][c2] # "." /\ get_piece_color(board[r2][c2]) = enemy_color
                 THEN TRUE
                 ELSE /\ en_passant_target # None
                      /\ board[r2][c2] = "."
       ELSE FALSE

valid_pawn_move(board, start, end, turn_white, en_passant_target) ==
    LET r1 == start[1]
        c1 == start[2]
        r2 == end[1]
        c2 == end[2]
        direction == IF turn_white THEN -1 ELSE 1
        start_row == IF turn_white THEN 6 ELSE 1
        enemy_color == IF turn_white THEN "black" ELSE "white"
    IN IF c1 = c2 /\ r2 = r1 + direction /\ board[r2][c2] = "." THEN TRUE
       ELSE IF /\ c1 = c2 /\ r1 = start_row /\ r2 = r1 + 2 * direction
               /\ board[r1 + direction][c1] = "." /\ board[r2][c2] = "."
            THEN TRUE
       ELSE IF abs(c2 - c1) = 1 /\ r2 = r1 + direction
            THEN IF board[r2][c2] # "." /\ get_piece_color(board[r2][c2]) = enemy_color
                 THEN TRUE
                 ELSE /\ en_passant_target # None
                      /\ <<r2, c2>> = en_passant_target
                      /\ board[r2][c2] = "."
       ELSE FALSE

\* for sq in ray: if sq == end: return True; if board[sq] != '.': return False
RECURSIVE walk_ray(_, _, _, _)
walk_ray(board, ray, end, i) ==
    IF i > Len(ray) THEN FALSE
    ELSE IF ray[i] = end THEN TRUE
    ELSE IF board[ray[i][1]][ray[i][2]] # "." THEN FALSE
    ELSE walk_ray(board, ray, end, i + 1)

\* slide that does not look at the squares of the ray
slide_over_pieces(board, rays, end) ==
    \E i \in 1..Len(rays) : InSeq(end, rays[i])

\* the first ray that holds end decides
slide(board, rays, end) ==
    LET hits == {i \in 1..Len(rays) : InSeq(end, rays[i])}
    IN IF hits = {} THEN FALSE
       ELSE walk_ray(board, rays[CHOOSE i \in hits : \A j \in hits : i <= j], end, 1)

valid_rook_move(board, start, end) == slide(board, ROOK_SLIDES[start], end)

valid_bishop_move(board, start, end) == slide(board, BISHOP_SLIDES[start], end)

valid_queen_move(board, start, end) ==
    IF valid_rook_move(board, start, end) THEN TRUE
    ELSE IF valid_bishop_move(board, start, end) THEN TRUE
    ELSE FALSE

(***************************************************************************)
(* Castling, en passant, promotion                                         *)
(***************************************************************************)
\* castling_rights is the list of the color: <<king side, queen side>>
can_castle(board, color, side, castling_rights) ==
    LET row == IF color = "white" THEN 7 ELSE 0
        king_char == IF color = "white" THEN "K" ELSE "k"
        opponent == IF color = "white" THEN "black" ELSE "white"
    IN IF side = "king"
       THEN /\ castling_rights[1]
            /\ board[row][4] = king_char
            /\ board[row][5] = "." /\ board[row][6] = "."
            /\ board[row][7] \in {"R", "r"}
            /\ get_piece_color(board[row][7]) = color
            /\ ~in_check(board, color)
            /\ ~square_attacked_by(board, row, 5, opponent)
            /\ ~square_attacked_by(board, row, 6, opponent)
       ELSE /\ castling_rights[2]
            /\ board[row][4] = king_char
            /\ board[row][3] = "." /\ board[row][2] = "." /\ board[row][1] = "."
            /\ board[row][0] \in {"R", "r"}
            /\ get_piece_color(board[row][0]) = color
            /\ ~in_check(board, color)
            /\ ~square_attacked_by(board, row, 3, opponent)
            /\ ~square_attacked_by(board, row, 2, opponent)

\* do_castle that leaves the rook's corner as it was
do_castle_corner_kept(board, color, side) ==
    LET row == IF color = "white" THEN 7 ELSE 0
        king_char == IF color = "white" THEN "K" ELSE "k"
    IN IF side = "king"
       THEN LET b1 == Put(board, row, 4, ".")
                b2 == Put(b1, row, 6, king_char)
            IN Put(b2, row, 5, b2[row][7])
       ELSE LET b1 == Put(board, row, 4, ".")
                b2 == Put(b1, row, 2, king_char)
            IN Put(b2, row, 3, b2[row][0])

do_castle(board, color, side) ==
    LET row == IF color = "white" THEN 7 ELSE 0
        king_char == IF color = "white" THEN "K" ELSE "k"
    IN IF side = "king"
       THEN LET b1 == Put(board, row, 4, ".")
                b2 == Put(b1, row, 6, king_char)
                b3 == Put(b2, row, 5, b2[row][7])
            IN Put(b3, row, 7, ".")
       ELSE LET b1 == Put(board, row, 4, ".")
                b2 == Put(b1, row, 2, king_char)
                b3 == Put(b2, row, 3, b2[row][0])
            IN Put(b3, row, 0, ".")

\* choice is the accepted answer of the input loop
promotion_choice(color, choice) ==
    IF color = "white" THEN choice ELSE lower(choice)

(***************************************************************************)
(* Move execution: the board and the dictionary after the call, the        *)
(* returned en-passant target, and the calls of promotion_choice made      *)
(***************************************************************************)
\* the en-passant capture that leaves the passed pawn on the board
remove_captured_pawn_skipped(b1, p, r1, c1, r2, c2, en_passant_target) ==
    b1

\* "Handle en passant capture": the board after the origin was vacated
remove_captured_pawn(b1, p, r1, c1, r2, c2, en_passant_target) ==
    IF /\ p = "P" /\ en_passant_target # None
       /\ <<r2, c2>> = en_passant_target
       /\ c1 # c2 /\ b1[r2][c2] = "."
    THEN Put(b1, r1, c2, ".") ELSE b1

\* the new target set to the square the pawn arrived on
new_target_on_arrival(p, r1, c1, r2) ==
    IF p = "P" /\ abs(r2 - r1) = 2
    THEN <<r2, c1>> ELSE None

\* "Set up new en passant target if pawn moves two squares"
new_target(p, r1, c1, r2) ==
    IF p = "P" /\ abs(r2 - r1) = 2
    THEN <<(r1 + r2) \div 2, c1>> ELSE None

\* the farthest ranks of the two colors exchanged
reaches_final_rank_rows_exchanged(p, color, r2) ==
    /\ p = "P"
    /\ \/ (color = "white" /\ r2 = 7)
       \/ (color = "black" /\ r2 = 0)

\* "Handle pawn promotion": whether promotion_choice is called
reaches_final_rank(p, color, r2) ==
    /\ p = "P"
    /\ \/ (color = "white" /\ r2 = 0)
       \/ (color = "black" /\ r2 = 7)

\* update_rights with the two flags of a rook exchanged
update_rights_flags_exchanged(castling_dict, p, color, r1, c1) ==
    IF p = "K" THEN [castling_dict EXCEPT ![color] = <<FALSE, FALSE>>]
    ELSE IF p = "R"
    THEN LET home == IF color = "white" THEN 7 ELSE 0
             d1 == IF <<r1, c1>> = <<home, 0>>
                   THEN [castling_dict EXCEPT ![color][1] = FALSE]
                   ELSE castling_dict
         IN IF <<r1, c1>> = <<home, 7>>
            THEN [d1 EXCEPT ![color][2] = FALSE]
            ELSE d1
    ELSE castling_dict

\* update_rights that stores a fresh pair of flags when a rook leaves a corner
update_rights_fresh_pair(castling_dict, p, color, r1, c1) ==
    IF p = "K" THEN [castling_dict EXCEPT ![color] = <<FALSE, FALSE>>]
    ELSE IF p = "R"
    THEN LET home == IF color = "white" THEN 7 ELSE 0
             d1 == IF <<r1, c1>> = <<home, 0>>
                   THEN [castling_dict EXCEPT ![color] = <<TRUE, FALSE>>]
                   ELSE castling_dict
         IN IF <<r1, c1>> = <<home, 7>>
            THEN [d1 EXCEPT ![color] = <<FALSE, TRUE>>]
            ELSE d1
    ELSE castling_dict

\* "Update castling rights if king or rook moves"
update_rights(castling_dict, p, color, r1, c1) ==
    IF p = "K" THEN [castling_dict EXCEPT ![color] = <<FALSE, FALSE>>]
    ELSE IF p = "R"
    THEN LET home == IF color = "white" THEN 7 ELSE 0
             d1 == IF <<r1, c1>> = <<home, 0>>
                   THEN [castling_dict EXCEPT ![color][2] = FALSE]
                   ELSE castling_dict
         IN IF <<r1, c1>> = <<home, 7>>
            THEN [d1 EXCEPT ![color][1] = FALSE]
            ELSE d1
    ELSE castling_dict

\* "Handle castling": do_castle, both rights of the color cleared, return None
castle(board, color, side, castling_dict) ==
    [board |-> do_castle(board, color, side), enp |-> None,
     cr |-> [castling_dict EXCEPT ![color] = <<FALSE, FALSE>>],
     calls |-> 0]

move_with_extras(board, start, end, turn_white, en_passant_target, castling_dict, choice) ==
    LET r1 == start[1]
        c1 == start[2]
        r2 == end[1]
        c2 == end[2]
        piece == board[r1][c1]
        p == upper(piece)
        color == IF is_white(piece) THEN "white" ELSE "black"
        row == IF color = "white" THEN 7 ELSE 0
    IN IF /\ p = "K" /\ <<r1, c1>> = <<row, 4>> /\ <<r2, c2>> = <<row, 6>>
          /\ can_castle(board, color, "king", castling_dict[color])
       THEN castle(board, color, "king", castling_dict)
       ELSE IF /\ p = "K" /\ <<r1, c1>> = <<row, 4>> /\ <<r2, c2>> = <<row, 2>>
               /\ can_castle(board, color, "queen", castling_dict[color])
       THEN castle(board, color, "queen", castling_dict)
       ELSE
         LET b1 == Put(board, r1, c1, ".")
             b2 == remove_captured_pawn(b1, p, r1, c1, r2, c2, en_passant_target)
             b3 == Put(b2, r2, c2, piece)
             promotes == reaches_final_rank(p, color, r2)
             b4 == IF promotes
                   THEN Put(b3, r2, c2, promotion_choice(color, choice)) ELSE b3
         IN [board |-> b4,
             enp |-> new_target(p, r1, c1, r2),
             cr |-> update_rights(castling_dict, p, color, r1, c1),
             calls |-> IF promotes THEN 1 ELSE 0]

(***************************************************************************)
(* Move validation.  The verdict ok, the caller's board and castling       *)
(* rights after the call, and the calls of promotion_choice made.          *)
(***************************************************************************)
Verdict(ok, board, castling_rights, calls) ==
    [ok |-> ok, board |-> board, cr |-> castling_rights, calls |-> calls]

\* what a simulation leaves: the scratch board temp, and the caller's board
\* and rights
after_simulation(board, castling_rights, temp, temp_cr, sim) ==
    [temp |-> sim.board,
     board |-> After(board, temp, sim.board),
     cr |-> After(castling_rights, temp_cr, sim.cr),
     calls |-> sim.calls]

\* "temp = copy_board(board); temp_cr = {...}; move_with_extras(temp, ...,
\* temp_cr)", as is_valid_move, has_legal_move and main each do
simulate_move(board, castling_rights, start, end, turn_white, en_passant_target, choice) ==
    LET temp == copy_board(board)
        temp_cr == copy_rights(castling_rights)
    IN after_simulation(board, castling_rights, temp, temp_cr,
                        move_with_extras(temp.rows, start, end, turn_white,
                                         en_passant_target, temp_cr.dict, choice))

\* is_valid_move without the test of the simulated board
check_safe_skipped(s, piece_color) ==
    Verdict(TRUE, s.board, s.cr, s.calls)

\* the simulated board tested for check of the other side's king
check_safe_other_king(s, piece_color) ==
    Verdict(~in_check(s.temp, IF piece_color = "white" THEN "black" ELSE "white"),
            s.board, s.cr, s.calls)

\* "if in_check(temp, piece_color): return False"
check_safe(s, piece_color) ==
    Verdict(~in_check(s.temp, piece_color), s.board, s.cr, s.calls)

\* "Attempting castling": the destination as a side of the board
castling_side(end, turn_white) ==
    LET color == IF turn_white THEN "white" ELSE "black"
    IN IF end = (IF color = "white" THEN <<7, 6>> ELSE <<0, 6>>) THEN "king"
       ELSE IF end = (IF color = "white" THEN <<7, 2>> ELSE <<0, 2>>) THEN "queen"
       ELSE "None"

\* whether the rules of the king come to "if not can_castle(...)": the
\* king's move is not in its table, its destination is a castling square
\* and castling_rights is not None
asks_can_castle(board, start, end, turn_white, castling_rights) ==
    /\ upper(board[start[1]][start[2]]) = "K"
    /\ ~InSeq(end, KING_MOVES[start])
    /\ castling_side(end, turn_white) # "None"
    /\ castling_rights # None

\* the piece-specific move rules
piece_rules(board, start, end, turn_white, en_passant_target, castling_rights) ==
    LET p == upper(board[start[1]][start[2]])
    IN CASE p = "P" -> valid_pawn_move(board, start, end, turn_white, en_passant_target)
         [] p = "N" -> InSeq(end, KNIGHT_MOVES[start])
         [] p = "B" -> valid_bishop_move(board, start, end)
         [] p = "R" -> valid_rook_move(board, start, end)
         [] p = "Q" -> valid_queen_move(board, start, end)
         [] p = "K" ->
              IF InSeq(end, KING_MOVES[start]) THEN TRUE
              ELSE IF asks_can_castle(board, start, end, turn_white, castling_rights)
              THEN can_castle(board, IF turn_white THEN "white" ELSE "black",
                              castling_side(end, turn_white),
                              castling_rights[IF turn_white THEN "white" ELSE "black"])
              ELSE FALSE
         [] OTHER -> FALSE

\* the tests of is_valid_move up to "if not checking_check": bounds, a
\* piece of the side to move, no capture of an own piece, the piece rules
passes_rules(board, start, end, turn_white, en_passant_target, castling_rights) ==
    /\ in_bounds(start[1], start[2]) /\ in_bounds(end[1], end[2])
    /\ board[start[1]][start[2]] # "."
    /\ turn_white = is_white(board[start[1]][start[2]])
    /\ ~(/\ board[end[1]][end[2]] # "."
         /\ get_piece_color(board[end[1]][end[2]])
               = (IF is_white(board[start[1]][start[2]]) THEN "white" ELSE "black"))
    /\ piece_rules(board, start, end, turn_white, en_passant_target, castling_rights)

is_valid_move(board, start, end, turn_white, en_passant_target, castling_rights, checking_check, choice) ==
    IF ~passes_rules(board, start, end, turn_white, en_passant_target, castling_rights)
    THEN Verdict(FALSE, board, castling_rights, 0)
    ELSE IF ~checking_check THEN Verdict(TRUE, board, castling_rights, 0)
    ELSE check_safe(simulate_move(board, castling_rights, start, end, turn_white,
                                  en_passant_target, choice),
                    IF is_white(board[start[1]][start[2]]) THEN "white" ELSE "black")

(***************************************************************************)
(* Terminal-state detection                                                *)
(***************************************************************************)
\* the scan after "return True" (done) or after the next pair is due
Scanned(done, board, castling_rights, calls) ==
    [done |-> done, board |-> board, cr |-> castling_rights, calls |-> calls]

\* "if not in_check(temp_board, color): return True"
try_again(st, v, color, s) ==
    Scanned(~in_check(s.temp, color), s.board, s.cr, st.calls + v.calls + s.calls)

\* the body of the innermost loop, v the verdict of is_valid_move
try_move(st, color, en_passant_target, choice, start, end, v) ==
    IF ~v.ok THEN Scanned(FALSE, v.board, v.cr, st.calls + v.calls)
    ELSE try_again(st, v, color,
                   simulate_move(v.board, v.cr, start, end, color = "white",
                                 en_passant_target, choice))

\* The loops of has_legal_move over the (origin, destination) pairs lo..hi
\* of the order r, c, rr, cc (pair i is origin i \div 64, destination
\* i % 64), run from the state st of the scan so far.  The range is scanned
\* as two halves in order; a range within one origin that holds no piece of
\* color is passed over.
RECURSIVE scan_moves(_, _, _, _, _, _, _)
scan_moves(st, color, en_passant_target, choice, lo, hi, width) ==
    IF st.done THEN st
    ELSE
    LET r == lo \div 512
        c == (lo \div 64) % 8
        piece == st.board[r][c]
        half == width \div 2
    IN IF width <= 64 /\ ~(piece # "." /\ get_piece_color(piece) = color) THEN st
       ELSE IF width > 1
       THEN scan_moves(scan_moves(st, color, en_passant_target, choice,
                                  lo, lo + half - 1, half),
                       color, en_passant_target, choice, lo + half, hi, half)
       ELSE try_move(st, color, en_passant_target, choice,
                     <<r, c>>, <<(lo \div 8) % 8, lo % 8>>,
                     is_valid_move(st.board, <<r, c>>, <<(lo \div 8) % 8, lo % 8>>,
                                   color = "white", en_passant_target, st.cr,
                                   TRUE, choice))

scan_result(st) == Verdict(st.done, st.board, st.cr, st.calls)

has_legal_move(board, color, castling_rights, en_passant_target, choice) ==
    scan_result(scan_moves(Scanned(FALSE, board, castling_rights, 0),
                           color, en_passant_target, choice, 0, 4095, 4096))

\* "if not has_legal_move(...): return True; return False"
none_legal(h) == Verdict(~h.ok, h.board, h.cr, h.calls)

\* is_checkmate that returns what has_legal_move returned
is_checkmate_not_negated(board, color, castling_rights, en_passant_target, choice) ==
    IF ~in_check(board, color) THEN Verdict(FALSE, board, castling_rights, 0)
    ELSE has_legal_move(board, color, castling_rights, en_passant_target, choice)

is_checkmate(board, color, castling_rights, en_passant_target, choice) ==
    IF ~in_check(board, color) THEN Verdict(FALSE, board, castling_rights, 0)
    ELSE none_legal(has_legal_move(board, color, castling_rights, en_passant_target, choice))

\* is_stalemate without the test of in_check
is_stalemate_check_not_tested(board, color, castling_rights, en_passant_target, choice) ==
    none_legal(has_legal_move(board, color, castling_rights, en_passant_target, choice))

is_stalemate(board, color, castling_rights, en_passant_target, choice) ==
    IF in_check(board, color) THEN Verdict(FALSE, board, castling_rights, 0)
    ELSE none_legal(has_legal_move(board, color, castling_rights, en_passant_target, choice))

(***************************************************************************)
(* Input.  A typed line is a sequence of tokens, a token a file letter and *)
(* a rank digit: "e2 e4" is << <<"e", 2>>, <<"e", 4>> >>.                  *)
(***************************************************************************)
L(f1, k1, f2, k2) == << <<f1, k1>>, <<f2, k2>> >>

\* ord(letter.lower()) - ord('a')
FileColumn(letter) ==
    CASE letter = "a" -> 0 [] letter = "b" -> 1 [] letter = "c" -> 2
      [] letter = "d" -> 3 [] letter = "e" -> 4 [] letter = "f" -> 5
      [] letter = "g" -> 6 [] letter = "h" -> 7 [] letter = "i" -> 8

\* a line that does not split into two tokens raises, and the except
\* clause returns (None, None)
parse_move(move_str) ==
    IF Len(move_str) # 2 THEN <<None, None>>
    ELSE << <<8 - move_str[1][2], FileColumn(move_str[1][1])>>,
            <<8 - move_str[2][2], FileColumn(move_str[2][1])>> >>

Files == {"a", "b", "c", "d", "e", "f", "g", "h"}
Ranks == 1..8

\* every well-formed line over the squares of the board
BoardLines == {L(f1, k1, f2, k2) : f1 \in Files, f2 \in Files, k1 \in Ranks, k2 \in Ranks}

\* lines that parse to squares off the board
OffBoardLines ==
    {L("i", 2, "e", 4), L("e", 2, "i", 4), L("e", 9, "e", 4), L("e", 2, "e", 0),
     L("e", 7, "e", 9), L("i", 9, "i", 0)}

\* lines parse_move rejects
MalformedLines == {<<>>, << <<"e", 2>> >>, << <<"e", 2>>, <<"e", 4>>, <<"e", 5>> >>}

\* The games the players follow once the first FreePly moves are played.
\* Each is a sequence of typed lines; where the last one is refused the
\* game ends there.
GameFoolsMate ==
    << L("f", 2, "f", 3), L("e", 7, "e", 5), L("g", 2, "g", 4), L("d", 8, "h", 4) >>

GameEnPassantWhite ==
    << L("e", 2, "e", 4), L("a", 7, "a", 6), L("e", 4, "e", 5), L("d", 7, "d", 5),
       L("e", 5, "d", 6), L("e", 7, "d", 6) >>

GameEnPassantWrongSquare ==
    << L("e", 2, "e", 4), L("a", 7, "a", 6), L("e", 4, "e", 5), L("d", 7, "d", 5),
       L("e", 5, "f", 6) >>

GameEnPassantExpired ==
    << L("e", 2, "e", 4), L("a", 7, "a", 6), L("e", 4, "e", 5), L("d", 7, "d", 5),
       L("a", 2, "a", 3), L("a", 6, "a", 5), L("e", 5, "d", 6) >>

GameEnPassantBlack ==
    << L("a", 2, "a", 3), L("d", 7, "d", 5), L("a", 3, "a", 4), L("d", 5, "d", 4),
       L("e", 2, "e", 4), L("d", 4, "e", 3) >>

GamePromotionWhite ==
    << L("a", 2, "a", 4), L("b", 7, "b", 5), L("a", 4, "b", 5), L("a", 7, "a", 6),
       L("b", 5, "a", 6), L("h", 7, "h", 6), L("a", 6, "a", 7), L("h", 6, "h", 5),
       L("a", 7, "b", 8), L("a", 8, "b", 8) >>

GamePromotionBlack ==
    << L("b", 2, "b", 4), L("a", 7, "a", 5), L("a", 2, "a", 3), L("a", 5, "b", 4),
       L("h", 2, "h", 3), L("b", 4, "a", 3), L("h", 3, "h", 4), L("a", 3, "a", 2),
       L("h", 4, "h", 5), L("a", 2, "b", 1), L("a", 1, "b", 1) >>

GamePromotionWithCheck ==
    << L("a", 2, "a", 4), L("b", 7, "b", 5), L("a", 4, "b", 5), L("h", 7, "h", 6),
       L("b", 5, "b", 6), L("h", 6, "h", 5), L("b", 6, "c", 7), L("h", 5, "h", 4),
       L("c", 7, "d", 8) >>

GameCastlePawnAttack ==
    << L("g", 2, "g", 3), L("d", 7, "d", 5), L("f", 1, "g", 2), L("d", 5, "d", 4),
       L("g", 1, "f", 3), L("d", 4, "d", 3), L("a", 2, "a", 3), L("d", 3, "e", 2),
       L("e", 1, "g", 1) >>

GameCastleKingSide ==
    << L("g", 1, "f", 3), L("g", 8, "f", 6), L("g", 2, "g", 3), L("g", 7, "g", 6),
       L("f", 1, "g", 2), L("f", 8, "g", 7), L("e", 1, "g", 1), L("e", 8, "g", 8) >>

GameCastleQueenSide ==
    << L("b", 1, "c", 3), L("b", 8, "c", 6), L("d", 2, "d", 4), L("d", 7, "d", 5),
       L("c", 1, "f", 4), L("c", 8, "f", 5), L("d", 1, "d", 2), L("d", 8, "d", 7),
       L("e", 1, "c", 1), L("e", 8, "c", 8) >>

GameCastleThroughBishop ==
    << L("g", 2, "g", 3), L("b", 7, "b", 6), L("f", 1, "g", 2), L("c", 8, "a", 6),
       L("g", 1, "f", 3), L("h", 7, "h", 6), L("e", 2, "e", 4), L("h", 6, "h", 5),
       L("e", 1, "g", 1) >>

GameCastleInCheck ==
    << L("g", 1, "f", 3), L("e", 7, "e", 6), L("g", 2, "g", 3), L("a", 7, "a", 6),
       L("f", 1, "g", 2), L("a", 6, "a", 5), L("d", 2, "d", 3), L("f", 8, "b", 4),
       L("e", 1, "g", 1) >>

GameCheckIgnored ==
    << L("g", 1, "f", 3), L("e", 7, "e", 6), L("g", 2, "g", 3), L("a", 7, "a", 6),
       L("f", 1, "g", 2), L("a", 6, "a", 5), L("d", 2, "d", 3), L("f", 8, "b", 4),
       L("a", 2, "a", 3) >>

GameCheckBlocked ==
    << L("g", 1, "f", 3), L("e", 7, "e", 6), L("g", 2, "g", 3), L("a", 7, "a", 6),
       L("f", 1, "g", 2), L("a", 6, "a", 5), L("d", 2, "d", 3), L("f", 8, "b", 4),
       L("c", 2, "c", 3) >>

GameCastleOntoAttacked ==
    << L("g", 1, "h", 3), L("e", 7, "e", 5), L("g", 2, "g", 3), L("f", 8, "c", 5),
       L("f", 1, "g", 2), L("a", 7, "a", 6), L("f", 2, "f", 4), L("a", 6, "a", 5),
       L("e", 1, "g", 1) >>

GameCastleBlackThroughBishop ==
    << L("b", 2, "b", 3), L("g", 7, "g", 6), L("c", 1, "a", 3), L("f", 8, "g", 7),
       L("h", 2, "h", 3), L("g", 8, "f", 6), L("h", 3, "h", 4), L("e", 7, "e", 5),
       L("c", 2, "c", 3), L("e", 8, "g", 8) >>

GameKingReturned ==
    << L("g", 1, "f", 3), L("a", 7, "a", 6), L("g", 2, "g", 3), L("a", 6, "a", 5),
       L("f", 1, "g", 2), L("a", 5, "a", 4), L("e", 1, "f", 1), L("h", 7, "h", 6),
       L("f", 1, "e", 1), L("h", 6, "h", 5), L("e", 1, "g", 1) >>

GameRookReturned ==
    << L("g", 1, "f", 3), L("a", 7, "a", 6), L("g", 2, "g", 3), L("a", 6, "a", 5),
       L("f", 1, "g", 2), L("a", 5, "a", 4), L("h", 1, "g", 1), L("h", 7, "h", 6),
       L("g", 1, "h", 1), L("h", 6, "h", 5), L("e", 1, "g", 1) >>

GameRookReplaced ==
    << L("g", 2, "g", 4), L("b", 7, "b", 6), L("a", 2, "a", 4), L("c", 8, "b", 7),
       L("h", 2, "h", 4), L("b", 7, "h", 1), L("a", 1, "a", 3), L("a", 7, "a", 6),
       L("a", 3, "h", 3), L("a", 6, "a", 5), L("h", 3, "h", 1), L("h", 7, "h", 6),
       L("g", 1, "f", 3), L("h", 6, "h", 5), L("e", 2, "e", 3), L("c", 7, "c", 6),
       L("f", 1, "e", 2), L("c", 6, "c", 5), L("e", 1, "g", 1) >>

GameStalemate ==
    << L("e", 2, "e", 3), L("a", 7, "a", 5), L("d", 1, "h", 5), L("a", 8, "a", 6),
       L("h", 5, "a", 5), L("h", 7, "h", 5), L("h", 2, "h", 4), L("a", 6, "h", 6),
       L("a", 5, "c", 7), L("f", 7, "f", 6), L("c", 7, "d", 7), L("e", 8, "f", 7),
       L("d", 7, "b", 7), L("d", 8, "d", 3), L("b", 7, "b", 8), L("d", 3, "h", 7),
       L("b", 8, "c", 8), L("f", 7, "g", 6), L("c", 8, "e", 6) >>

GameKingAndRook ==
    << L("g", 1, "f", 3), L("a", 7, "a", 6), L("g", 2, "g", 3), L("a", 6, "a", 5),
       L("f", 1, "g", 2), L("a", 5, "a", 4), L("e", 1, "f", 1), L("h", 7, "h", 6),
       L("f", 1, "e", 1), L("h", 6, "h", 5), L("h", 1, "g", 1) >>

GameKingIntoCheck ==
    << L("g", 1, "f", 3), L("e", 7, "e", 6), L("g", 2, "g", 3), L("a", 7, "a", 6),
       L("f", 1, "g", 2), L("a", 6, "a", 5), L("d", 2, "d", 3), L("f", 8, "b", 4),
       L("e", 1, "d", 2) >>

GameScholarsMate ==
    << L("e", 2, "e", 4), L("e", 7, "e", 5), L("d", 1, "h", 5), L("b", 8, "c", 6),
       L("f", 1, "c", 4), L("g", 8, "f", 6), L("h", 5, "f", 7) >>

Games ==
    {GameFoolsMate, GameEnPassantWhite, GameEnPassantWrongSquare, GameEnPassantExpired,
     GameEnPassantBlack, GamePromotionWhite, GamePromotionBlack, GameCastlePawnAttack,
     GameCastleKingSide, GameCastleQueenSide, GameCastleThroughBishop, GameCastleInCheck,
     GameCheckIgnored, GameCheckBlocked, GameCastleOntoAttacked, GameCastleBlackThroughBishop,
     GameKingReturned, GameRookReturned, GameRookReplaced, GameStalemate,
     GameKingAndRook, GameKingIntoCheck, GameScholarsMate, GamePromotionWithCheck}

(***************************************************************************)
(* The main game loop                                                      *)
(***************************************************************************)
\* the number of applied moves during which any line may be typed
FreePly == 1

VARIABLES
    board,              \* main's board
    turn_white,         \* main's turn_white
    en_passant_target,  \* main's en_passant_target
    castling_rights,    \* main's castling_rights
    status,             \* "playing", or how the loop was left
    outcome,            \* what the last pass of the loop did with its input
    moves,              \* history: the typed lines of the applied moves
    unmoved,            \* history: squares whose piece has never moved
    calls,              \* calls of promotion_choice in the last pass
    promotions          \* applied pawn moves to the final rank in the last pass

vars == <<board, turn_white, en_passant_target, castling_rights, status,
          outcome, moves, unmoved, calls, promotions>>

Init ==
    /\ board = copy_board(STARTING_BOARD).rows
    /\ turn_white = TRUE
    /\ en_passant_target = None
    /\ castling_rights = copy_rights(CASTLE_RIGHTS).dict
    /\ status = "playing"
    /\ outcome = "none"
    /\ moves = <<>>
    /\ unmoved = {sq \in Squares : STARTING_BOARD[sq[1]][sq[2]] # "."}
    /\ calls = 0
    /\ promotions = 0

player_color == IF turn_white THEN "white" ELSE "black"

\* What the provider may answer in a pass: it is asked only when a pawn of
\* the player stands one step from the final rank.
Answers ==
    IF \E c \in Rows : board[IF turn_white THEN 1 ELSE 6][c] = (IF turn_white THEN "P" ELSE "p")
    THEN PromotionPieces ELSE {NoChoice}

\* the lines the players may type next
Continuations ==
    {g[Len(moves) + 1] : g \in {h \in Games : /\ Len(h) > Len(moves)
                                              /\ SubSeq(h, 1, Len(moves)) = moves}}

Inputs ==
    IF Len(moves) < FreePly
    THEN BoardLines \cup OffBoardLines \cup Continuations
    ELSE Continuations

\* the game-ending conditions at the top of the loop, and what the two
\* queries left of the board and the rights
ended(cm, sm) ==
    [mate |-> cm.ok, stale |-> sm.ok, board |-> sm.board, cr |-> sm.cr,
     calls |-> cm.calls + sm.calls]

after_checkmate(cm, a2) ==
    IF cm.ok THEN ended(cm, Verdict(FALSE, cm.board, cm.cr, 0))
    ELSE ended(cm, is_stalemate(cm.board, player_color, cm.cr, en_passant_target, a2))

EndCheck(a1, a2) ==
    after_checkmate(is_checkmate(board, player_color, castling_rights,
                                 en_passant_target, a1), a2)

\* a pass of the loop that applies no move
Pass(t, how, st, n) ==
    /\ board' = t.board
    /\ castling_rights' = t.cr
    /\ status' = st
    /\ outcome' = how
    /\ calls' = n
    /\ promotions' = 0
    /\ UNCHANGED <<turn_white, en_passant_target, moves, unmoved>>

Checkmate ==
    /\ status = "playing"
    /\ \E a1 \in Answers, a2 \in Answers :
         \E t \in {EndCheck(a1, a2)} :
            t.mate /\ Pass(t, "checkmate", "checkmate", t.calls)

Stalemate ==
    /\ status = "playing"
    /\ \E a1 \in Answers, a2 \in Answers :
         \E t \in {EndCheck(a1, a2)} :
            ~t.mate /\ t.stale /\ Pass(t, "stalemate", "stalemate", t.calls)

Quit ==
    /\ status = "playing"
    /\ \E a1 \in Answers, a2 \in Answers :
         \E t \in {EndCheck(a1, a2)} :
            ~t.mate /\ ~t.stale /\ Pass(t, "quit", "quit", t.calls)

InvalidFormat ==
    /\ status = "playing"
    /\ \E a1 \in Answers, a2 \in Answers :
         \E t \in {EndCheck(a1, a2)} :
            /\ ~t.mate /\ ~t.stale
            /\ \E line \in MalformedLines :
                 LET parsed == parse_move(line)
                 IN /\ parsed[1] = None \/ parsed[2] = None
                    /\ Pass(t, "invalid_format", "playing", t.calls)

\* the move was accepted: simulate it once more on copies, then execute it
\* on main's own board and rights
Execute(line, start, end, v, n, a4, a5) ==
    \E s \in {simulate_move(v.board, v.cr, start, end, turn_white,
                            en_passant_target, a4)} :
       IF in_check(s.temp, player_color)
       THEN Pass(s, "remains_in_check", "playing", n + s.calls)
       ELSE
       \E done \in {move_with_extras(s.board, start, end, turn_white,
                                     en_passant_target, s.cr, a5)} :
          /\ board' = done.board
          /\ en_passant_target' = done.enp
          /\ castling_rights' = done.cr
          /\ turn_white' = ~turn_white
          /\ status' = "playing"
          /\ outcome' = "applied"
          /\ moves' = Append(moves, line)
          /\ unmoved' = {sq \in unmoved :
                           done.board[sq[1]][sq[2]] = board[sq[1]][sq[2]]}
          /\ calls' = n + s.calls + done.calls
          /\ promotions' = done.calls

\* read a line, validate the move, apply it
Submit ==
    /\ status = "playing"
    /\ \E a1 \in Answers, a2 \in Answers :
         \E t \in {EndCheck(a1, a2)} :
            /\ ~t.mate /\ ~t.stale
            /\ \E line \in Inputs, a3 \in Answers, a4 \in Answers, a5 \in Answers :
                 \E parsed \in {parse_move(line)} :
                    /\ ~(parsed[1] = None \/ parsed[2] = None)
                    /\ \E v \in {is_valid_move(t.board, parsed[1], parsed[2], turn_white,
                                               en_passant_target, t.cr, TRUE, a3)} :
                          IF ~v.ok
                          THEN Pass(v, "illegal", "playing", t.calls + v.calls)
                          ELSE Execute(line, parsed[1], parsed[2], v,
                                       t.calls + v.calls, a4, a5)

Next == Checkmate \/ Stalemate \/ Quit \/ InvalidFormat \/ Submit

Spec == Init /\ [][Next]_vars

(***************************************************************************)
(* Properties                                                              *)
(***************************************************************************)
\* The position (board, side to move, en-passant target, castling rights)
\* has just been set up or reached by an applied move.  The passes that
\* follow without applying a move lead to states that differ from this one
\* only in what they record of the pass (status, outcome, calls,
\* promotions), so what holds of the position is evaluated here, once for
\* each position.
new_position == outcome \in {"none", "applied"}

\* the side that made the last applied move
mover == IF turn_white THEN "black" ELSE "white"

\* the squares of the last applied move
last_start == parse_move(moves[Len(moves)])[1]
last_end == parse_move(moves[Len(moves)])[2]

\* The attack of chess: a pawn attacks the two squares diagonally ahead of
\* it whether or not they are occupied, a knight and a king the squares of
\* their tables, a rook, bishop and queen along unobstructed lines.
attacked_in_chess(b, r, c, color) ==
    \E sq \in Squares :
       LET piece == b[sq[1]][sq[2]]
           p == upper(piece)
       IN /\ get_piece_color(piece) = color
          /\ sq # <<r, c>>
          /\ CASE p = "P" -> /\ sq[1] = r + (IF color = "white" THEN 1 ELSE -1)
                             /\ sq[2] \in {c - 1, c + 1}
               [] p = "N" -> InSeq(<<r, c>>, KNIGHT_MOVES[sq])
               [] p = "K" -> InSeq(<<r, c>>, KING_MOVES[sq])
               [] p = "R" -> valid_rook_move(b, sq, <<r, c>>)
               [] p = "B" -> valid_bishop_move(b, sq, <<r, c>>)
               [] p = "Q" -> valid_queen_move(b, sq, <<r, c>>)
               [] OTHER -> FALSE

opponent(color) == IF color = "white" THEN "black" ELSE "white"

\* the king of color stands on a square that the other side attacks
king_attacked(b, color) ==
    LET king_pos == find_king_position(b, color)
    IN /\ king_pos # None
       /\ attacked_in_chess(b, king_pos[1], king_pos[2], opponent(color))

\* the verdict of main's call of is_valid_move for a typed line
accepts(line, choice) ==
    is_valid_move(board, parse_move(line)[1], parse_move(line)[2], turn_white,
                  en_passant_target, castling_rights, TRUE, choice).ok

\* the board move_with_extras leaves when it executes a typed line
executed(line, choice) ==
    move_with_extras(board, parse_move(line)[1], parse_move(line)[2], turn_white,
                     en_passant_target, castling_rights, choice).board

\* C1: in every position reached, every move on the board that is_valid_move
\* accepts in full mode (ordinary moves, captures, castling, en passant and
\* promotions, whatever the provider answers) leaves the mover's own king
\* out of check on the board that move_with_extras produces, by in_check
\* and by the attack of chess alike; so after each applied move the king of
\* the side that moved is not in check.
C1_AcceptedMoveKeepsKingSafe ==
    /\ new_position =>
          \A line \in BoardLines, a \in Answers :
             accepts(line, a) =>
                \A b \in Answers :
                   /\ ~in_check(executed(line, b), player_color)
                   /\ ~king_attacked(executed(line, b), player_color)
    /\ outcome = "applied" =>
          ~in_check(board, mover) /\ ~king_attacked(board, mover)

\* white, in check from the bishop on b4, has answered with c2-c3
C1_Witness ==
    /\ moves = GameCheckBlocked
    /\ outcome = "applied"
    /\ board[4][1] = "b" /\ board[5][2] = "P"
    /\ ~in_check(board, "white")

Colors == {"white", "black"}
Sides == {"king", "queen"}
home_row(color) == IF color = "white" THEN 7 ELSE 0
king_target(side) == IF side = "king" THEN 6 ELSE 2
rook_corner(side) == IF side = "king" THEN 7 ELSE 0
\* the columns of the king's square, the square it crosses and its destination
king_path(side) == IF side = "king" THEN {4, 5, 6} ELSE {4, 3, 2}

\* is_valid_move accepts, in full mode, the castling of color to side
castling_accepted(color, side) ==
    /\ board[home_row(color)][4] = (IF color = "white" THEN "K" ELSE "k")
    /\ is_valid_move(board, <<home_row(color), 4>>,
                     <<home_row(color), king_target(side)>>, color = "white",
                     en_passant_target, castling_rights, TRUE, NoChoice).ok

\* C2: for both colors, in every reachable state, castling is not accepted
\* when the king's current square, the square it crosses or its destination
\* is attacked by any opposing piece.
C2_NoCastlingThroughAttack ==
    \A color \in Colors, side \in Sides :
       castling_accepted(color, side) =>
          \A c \in king_path(side) :
             ~attacked_in_chess(board, home_row(color), c, opponent(color))

\* C3: for both colors, in every reachable state, castling to a side is not
\* accepted once the king or the rook that takes part in it has moved at an
\* earlier ply, even when a king and a rook of the color stand on the home
\* and corner squares again.
C3_NoCastlingAfterKingOrRookMoved ==
    \A color \in Colors, side \in Sides :
       castling_accepted(color, side) =>
          /\ <<home_row(color), 4>> \in unmoved
          /\ <<home_row(color), rook_corner(side)>> \in unmoved

\* the last applied move was a pawn's advance of two squares
double_step_played ==
    /\ Len(moves) > 0
    /\ upper(board[last_end[1]][last_end[2]]) = "P"
    /\ last_start[2] = last_end[2]
    /\ abs(last_end[1] - last_start[1]) = 2

\* the square that pawn passed over
skipped == <<(last_start[1] + last_end[1]) \div 2, last_start[2]>>

\* a typed line that moves a pawn diagonally onto an empty square
en_passant_line(line) ==
    LET start == parse_move(line)[1]
        end == parse_move(line)[2]
    IN /\ upper(board[start[1]][start[2]]) = "P"
       /\ start[2] # end[2]
       /\ board[end[1]][end[2]] = "."

\* C4: an en-passant capture (a pawn's diagonal move onto an empty square)
\* is accepted only on the ply that immediately follows an opposing pawn's
\* advance of two squares, and only onto the square that pawn passed over;
\* the en-passant target is that square exactly while the last applied move
\* is such an advance, so one further applied move by either side clears or
\* replaces it.
C4_EnPassantOnlyRightAfterDoubleStep ==
    /\ new_position =>
          \A line \in BoardLines :
             (en_passant_line(line) /\ \E a \in Answers : accepts(line, a)) =>
                /\ double_step_played
                /\ get_piece_color(board[last_end[1]][last_end[2]]) = mover
                /\ parse_move(line)[2] = skipped
    /\ en_passant_target = (IF double_step_played THEN skipped ELSE None)

\* black has just played d7-d5 past the white pawn on e5, and e5xd6 is accepted
C4_Witness ==
    /\ double_step_played
    /\ skipped = <<2, 3>>
    /\ board[3][4] = "P" /\ board[3][3] = "p" /\ board[2][3] = "."
    /\ accepts(L("e", 5, "d", 6), NoChoice)

\* C5: promotion_choice is called exactly once for each applied pawn move
\* whose destination is the final rank of its color, and never otherwise:
\* in every pass of the main loop the number of calls of the provider equals
\* the number of promoting moves the pass applied.
C5_ProviderCalledOncePerPromotion ==
    calls = promotions

\* C6: castling flags are monotone: a flag that is false stays false in every
\* later state of the game; no step of the program sets a flag back to true.
C6_CastlingFlagsNeverRestored ==
    [][\A color \in Colors, i \in {1, 2} :
          ~castling_rights[color][i] => ~castling_rights'[color][i]]_vars

\* white has lost both flags by moving its king, and has since moved the
\* rook away from its corner h1
C6_Witness ==
    /\ moves = GameKingAndRook
    /\ castling_rights["white"] = <<FALSE, FALSE>>
    /\ board[7][6] = "R" /\ board[7][7] = "."

\* C7: a submitted move is applied if and only if is_valid_move returns true
\* for it.  A pass whose line is_valid_move refuses (outcome "illegal": an
\* illegal move, the wrong side's piece, an empty origin, a square off the
\* board) leaves the board, the castling rights, the en-passant target and
\* the side to move unchanged and the loop running; a pass whose line it
\* accepts applies the move (it is never refused by the second test of the
\* king, outcome "remains_in_check") and toggles the side to move exactly
\* once; and nothing but an accepted line changes the position.
C7_AppliedIffValid ==
    [][/\ outcome' = "illegal" =>
             /\ UNCHANGED <<board, castling_rights, en_passant_target,
                            turn_white, moves>>
             /\ status' = "playing"
       /\ outcome' # "remains_in_check"
       /\ outcome' = "applied" =>
             /\ \E a \in Answers : accepts(moves'[Len(moves')], a)
             /\ turn_white' = ~turn_white
             /\ Len(moves') = Len(moves) + 1
       /\ outcome' # "applied" =>
             UNCHANGED <<board, castling_rights, en_passant_target,
                         turn_white, moves>>]_vars

\* white, in check from the bishop on b4, typed a line that does not answer
\* the check (e1 d2, a square that bishop attacks too) and was refused; the
\* king has not moved and keeps its rights
C7_Witness ==
    /\ moves = SubSeq(GameKingIntoCheck, 1, 8)
    /\ outcome = "illegal"
    /\ in_check(board, "white")
    /\ board[7][4] = "K"
    /\ castling_rights["white"] = <<TRUE, TRUE>>

\* a query returned with the caller's board and castling rights as they were
untouched(v) == v.board = board /\ v.cr = castling_rights

\* C8: the query functions leave their caller's state unchanged in every
\* position reached: is_valid_move in both modes (raw mode is how
\* square_attacked_by and in_check ask), has_legal_move, is_checkmate and
\* is_stalemate return with the caller's board and castling rights as they
\* were, because every simulation inside them runs on fresh copies.  The
\* en-passant target is a tuple passed by value: a callee has no way to
\* change the caller's.
C8_QueriesLeaveCallerStateUnchanged ==
    new_position =>
    /\ \A line \in BoardLines \cup OffBoardLines, a \in Answers, mode \in BOOLEAN :
          untouched(is_valid_move(board, parse_move(line)[1], parse_move(line)[2],
                                  turn_white, en_passant_target, castling_rights,
                                  mode, a))
    /\ \A color \in Colors, a \in Answers :
          /\ untouched(has_legal_move(board, color, castling_rights,
                                      en_passant_target, a))
          /\ untouched(is_checkmate(board, color, castling_rights,
                                    en_passant_target, a))
          /\ untouched(is_stalemate(board, color, castling_rights,
                                    en_passant_target, a))

\* the loop has ended in stalemate: is_stalemate has simulated every move of
\* black on copies, and the position on main's board is the one it was given
C8_Witness ==
    /\ status = "stalemate"
    /\ moves = GameStalemate
    /\ ~in_check(board, "black")
    /\ board[2][6] = "k" /\ board[2][4] = "Q"
    /\ is_stalemate(board, "black", castling_rights, en_passant_target, NoChoice).ok

\* the pairs (origin, destination) that is_valid_move accepts in full mode
legal_pairs ==
    {m \in Squares \X Squares :
        is_valid_move(board, m[1], m[2], turn_white, en_passant_target,
                      castling_rights, TRUE, NoChoice).ok}

\* the single and double step of each white pawn and the two moves of each
\* white knight
opening_moves ==
    {<<<<6, c>>, <<r, c>>>> : c \in Rows, r \in {5, 4}}
       \cup {<<<<7, 1>>, <<5, 0>>>>, <<<<7, 1>>, <<5, 2>>>>,
             <<<<7, 6>>, <<5, 5>>>>, <<<<7, 6>>, <<5, 7>>>>}

\* C9: in the initial position (white to move, no en-passant target, all
\* castling rights) the fully legal (origin, destination) pairs are exactly
\* 20: sixteen pawn moves and four knight moves.
C9_TwentyLegalMovesAtStart ==
    moves = <<>> =>
       /\ Cardinality(legal_pairs) = 20
       /\ legal_pairs = opening_moves

\* the initial position, after a line that is not one of the twenty was
\* typed in it and refused
C9_Witness ==
    /\ moves = <<>>
    /\ outcome = "illegal"
    /\ board = STARTING_BOARD
    /\ turn_white /\ en_passant_target = None
    /\ castling_rights = CASTLE_RIGHTS
    /\ Cardinality(legal_pairs) = 20

\* the side to move has no move that is_valid_move accepts
no_accepted_move ==
    \A line \in BoardLines, a \in Answers : ~accepts(line, a)

\* C10: whenever the accepted moves reach a position where the side to move
\* is in check and has no legal move, is_checkmate is true for that side; in
\* particular after f2-f3, e7-e5, g2-g4, d8-h4 is_checkmate is true for
\* white and is_stalemate is false.
C10_CheckmateDetected ==
    /\ (new_position /\ in_check(board, player_color) /\ no_accepted_move) =>
          \A a \in Answers :
             is_checkmate(board, player_color, castling_rights,
                          en_passant_target, a).ok
    /\ moves = GameFoolsMate =>
          /\ turn_white
          /\ is_checkmate(board, "white", castling_rights,
                          en_passant_target, NoChoice).ok
          /\ ~is_stalemate(board, "white", castling_rights,
                           en_passant_target, NoChoice).ok

\* the loop has ended with checkmate after the four moves of the fool's mate
C10_Witness ==
    /\ moves = GameFoolsMate
    /\ status = "checkmate"
    /\ board[4][7] = "q"
    /\ in_check(board, "white")
    /\ no_accepted_move

\* what the provider may answer when a move of color is simulated
answers_for(color) ==
    IF \E c \in Rows : board[IF color = "white" THEN 1 ELSE 6][c]
                          = (IF color = "white" THEN "P" ELSE "p")
    THEN PromotionPieces ELSE {NoChoice}

\* C11: in every position reached and for each color, is_checkmate and
\* is_stalemate are never both true; whenever either is true has_legal_move
\* is false for that color; is_checkmate equals in_check and not
\* has_legal_move, and is_stalemate equals not in_check and not
\* has_legal_move.
C11_MateAndStalemateExclusive ==
    new_position =>
       \A color \in Colors : \A a \in answers_for(color) :
          \E cm \in {is_checkmate(board, color, castling_rights,
                                  en_passant_target, a).ok} :
          \E sm \in {is_stalemate(board, color, castling_rights,
                                  en_passant_target, a).ok} :
          \E h \in {has_legal_move(board, color, castling_rights,
                                   en_passant_target, a).ok} :
             /\ ~(cm /\ sm)
             /\ (cm \/ sm) => ~h
             /\ cm = (in_check(board, color) /\ ~h)
             /\ sm = (~in_check(board, color) /\ ~h)

\* black is mated by the queen on f7 (scholar's mate): is_checkmate is true
\* and is_stalemate is false for black, and neither is true for white
C11_Witness ==
    /\ moves = GameScholarsMate
    /\ board[1][5] = "Q"
    /\ is_checkmate(board, "black", castling_rights, en_passant_target, NoChoice).ok
    /\ ~is_stalemate(board, "black", castling_rights, en_passant_target, NoChoice).ok
    /\ ~has_legal_move(board, "black", castling_rights, en_passant_target, NoChoice).ok
    /\ has_legal_move(board, "white", castling_rights, en_passant_target, NoChoice).ok

\* is_valid_move in raw mode (checking_check False) for the piece on start,
\* asked for the color of that piece
pseudo_legal(start, end) ==
    is_valid_move(board, start, end, is_white(board[start[1]][start[2]]),
                  en_passant_target, castling_rights, FALSE, NoChoice).ok

sign(x) == IF x > 0 THEN 1 ELSE IF x < 0 THEN -1 ELSE 0

\* end lies on a ray of the piece p standing on start: along the row or the
\* column for a rook, along a diagonal for a bishop, either for a queen
on_ray(p, start, end) ==
    /\ start # end
    /\ \/ p \in {"R", "Q"} /\ (start[1] = end[1] \/ start[2] = end[2])
       \/ p \in {"B", "Q"} /\ abs(end[1] - start[1]) = abs(end[2] - start[2])

\* the squares strictly between start and end on that ray
between(start, end) ==
    LET dr == end[1] - start[1]
        dc == end[2] - start[2]
        n == IF abs(dr) > abs(dc) THEN abs(dr) ELSE abs(dc)
    IN {<<start[1] + k * sign(dr), start[2] + k * sign(dc)>> : k \in 1..(n - 1)}

\* C12: for a rook, bishop or queen, a destination on one of its rays is
\* pseudo-legal exactly when every square strictly between origin and
\* destination is empty and the destination is empty or holds an enemy
\* piece: a piece on the ray makes every square beyond it unreachable, and
\* the blocking square itself is reachable only when the blocker is an
\* enemy piece.
C12_SlidersStopAtFirstPiece ==
    new_position =>
       \A start \in Squares :
          upper(board[start[1]][start[2]]) \in {"R", "B", "Q"} =>
             \A end \in Squares :
                on_ray(upper(board[start[1]][start[2]]), start, end) =>
                   (pseudo_legal(start, end) <=>
                       /\ \A sq \in between(start, end) : board[sq[1]][sq[2]] = "."
                       /\ get_piece_color(board[end[1]][end[2]])
                             # get_piece_color(board[start[1]][start[2]]))

\* the white queen on h5 looks along the fifth rank at the black pawn on e5:
\* it can take the pawn and cannot reach d5 behind it
C12_Witness ==
    /\ moves = SubSeq(GameScholarsMate, 1, 3)
    /\ board[3][7] = "Q" /\ board[3][4] = "p"
    /\ board[3][6] = "." /\ board[3][5] = "." /\ board[3][3] = "."
    /\ pseudo_legal(<<3, 7>>, <<3, 4>>)
    /\ ~pseudo_legal(<<3, 7>>, <<3, 3>>)

\* what square_attacked_by finds when it asks for a pawn of color: a pawn
\* whose move to (r, c) is_valid_move accepts in raw mode, with no en-passant
\* target and no castling rights
reported_by_pawn(b, r, c, color) ==
    \E sq \in Squares :
       /\ b[sq[1]][sq[2]] = (IF color = "white" THEN "P" ELSE "p")
       /\ is_valid_move(b, sq, <<r, c>>, color = "white", None, None,
                        FALSE, NoChoice).ok

\* (r, c) is one step diagonally forward of a pawn of color
pawn_attacks(b, r, c, color) ==
    \E sq \in Squares :
       /\ b[sq[1]][sq[2]] = (IF color = "white" THEN "P" ELSE "p")
       /\ sq[1] = r + (IF color = "white" THEN 1 ELSE -1)
       /\ sq[2] \in {c - 1, c + 1}

\* C13: square_attacked_by agrees with the attack of chess for pawns: a
\* square is reported attacked by a pawn of the given color exactly when it
\* is one step diagonally forward of that pawn, whether it is empty or
\* occupied, and a pawn never makes the square straight ahead of it (one or
\* two steps) count as attacked.
C13_PawnAttacksAreDiagonal ==
    \A color \in Colors, sq \in Squares :
       /\ reported_by_pawn(board, sq[1], sq[2], color)
             <=> pawn_attacks(board, sq[1], sq[2], color)
       /\ pawn_attacks(board, sq[1], sq[2], color)
             => square_attacked_by(board, sq[1], sq[2], color)

\* the squares that hold the piece ch
squares_of(ch) == {sq \in Squares : board[sq[1]][sq[2]] = ch}

\* C14: in every state reached from the initial position by applied moves
\* the board holds exactly one white king and exactly one black king, and
\* no move that is_valid_move accepts has a king on its destination.
C14_OneKingEach ==
    /\ Cardinality(squares_of("K")) = 1
    /\ Cardinality(squares_of("k")) = 1
    /\ new_position =>
          \A line \in BoardLines, a \in Answers :
             accepts(line, a) =>
                upper(board[parse_move(line)[2][1]][parse_move(line)[2][2]]) # "K"

\* late in a game with many captures, the white queen next to the black king
C14_Witness ==
    /\ moves = GameStalemate
    /\ outcome = "applied"
    /\ Cardinality({sq \in Squares : board[sq[1]][sq[2]] # "."}) < 32
    /\ squares_of("K") = {<<7, 4>>}
    /\ squares_of("k") = {<<2, 6>>}

\* the start and end squares of a typed line, and the piece it moves
start_of(line) == parse_move(line)[1]
end_of(line) == parse_move(line)[2]
moved_piece(line) == board[start_of(line)[1]][start_of(line)[2]]

\* the result of move_with_extras for a typed line in the current position
applied(line, choice) ==
    move_with_extras(board, start_of(line), end_of(line), turn_white,
                     en_passant_target, castling_rights, choice)

\* the castling rights a move of piece from start should leave
rights_after(cr, piece, start) ==
    [color \in Colors |->
        IF color # get_piece_color(piece) THEN cr[color]
        ELSE IF upper(piece) = "K" THEN <<FALSE, FALSE>>
        ELSE IF upper(piece) = "R" /\ start = <<home_row(color), 7>>
             THEN <<FALSE, cr[color][2]>>
        ELSE IF upper(piece) = "R" /\ start = <<home_row(color), 0>>
             THEN <<cr[color][1], FALSE>>
        ELSE cr[color]]

\* C15: after move_with_extras applies a move the castling rights are
\* exactly: both flags of the mover's color false if the moved piece is a
\* king (castling included); the one matching flag false if it is a rook
\* leaving the a-file or h-file corner of its color; every other flag, in
\* particular both flags of the opponent, unchanged; no other move changes
\* a flag.
C15_RightsUpdatedExactly ==
    new_position =>
       \A line \in BoardLines, a \in Answers :
          accepts(line, a) =>
             \A b \in Answers :
                applied(line, b).cr
                   = rights_after(castling_rights, moved_piece(line), start_of(line))

\* white has moved the rook from h1 to g1: only its king-side flag is false
C15_Witness ==
    /\ moves = SubSeq(GameRookReturned, 1, 7)
    /\ outcome = "applied"
    /\ board[7][6] = "R" /\ board[7][7] = "."
    /\ castling_rights["white"] = <<FALSE, TRUE>>
    /\ castling_rights["black"] = <<TRUE, TRUE>>

\* the typed line that castles: the king of color goes from its home square
\* two files towards a corner
castling_line(color, side) ==
    L("e", 8 - home_row(color), IF side = "king" THEN "g" ELSE "c",
      8 - home_row(color))

\* the board castling should leave: king and rook on their new squares, the
\* king's home square and the rook's corner empty, nothing else touched
castled_board(color, side) ==
    LET row == home_row(color)
    IN [r \in Rows |-> [c \in Rows |->
          IF r # row THEN board[r][c]
          ELSE IF c = 4 \/ c = rook_corner(side) THEN "."
          ELSE IF c = king_target(side)
               THEN (IF color = "white" THEN "K" ELSE "k")
          ELSE IF c = (IF side = "king" THEN 5 ELSE 3)
               THEN (IF color = "white" THEN "R" ELSE "r")
          ELSE board[r][c]]]

\* C16: when a validated castling move is applied, in one step the king
\* lands on the g-file (king side) or c-file (queen side) square and the
\* rook on the f-file or d-file square of the home rank, the king's home
\* square and the rook's corner become empty, every other square is
\* unchanged, both castling flags of that color become false, and the
\* returned en-passant target is empty.
C16_CastlingMovesKingAndRook ==
    new_position =>
       \A side \in Sides : \A line \in {castling_line(player_color, side)} :
          (upper(moved_piece(line)) = "K" /\ accepts(line, NoChoice)) =>
             /\ applied(line, NoChoice).board = castled_board(player_color, side)
             /\ applied(line, NoChoice).cr[player_color] = <<FALSE, FALSE>>
             /\ applied(line, NoChoice).enp = None

\* white has just castled queen side: king on c1, rook on d1, a1 and e1 empty
C16_Witness ==
    /\ moves = SubSeq(GameCastleQueenSide, 1, 9)
    /\ outcome = "applied"
    /\ board[7][2] = "K" /\ board[7][3] = "R"
    /\ board[7][0] = "." /\ board[7][4] = "."
    /\ castling_rights["white"] = <<FALSE, FALSE>>
    /\ en_passant_target = None

\* the board an en-passant capture should leave: origin and the square
\* beside it in the destination's file empty, the pawn on the destination
captured_in_passing(start, end) ==
    [r \in Rows |-> [c \in Rows |->
        IF <<r, c>> = start \/ <<r, c>> = <<start[1], end[2]>> THEN "."
        ELSE IF <<r, c>> = end THEN board[start[1]][start[2]]
        ELSE board[r][c]]]

\* C17: applying an en-passant capture empties the origin square and the
\* square on the origin's rank in the destination's file (the captured
\* pawn), puts the capturing pawn on the destination and changes no other
\* square, and the square emptied this way held an enemy pawn; a pawn move
\* that is not an en-passant capture never empties any square other than
\* its origin.
C17_EnPassantRemovesThePassedPawn ==
    new_position =>
       \A line \in BoardLines :
          (upper(moved_piece(line)) = "P" /\ \E a \in Answers : accepts(line, a)) =>
             IF en_passant_line(line)
             THEN /\ applied(line, NoChoice).board
                        = captured_in_passing(start_of(line), end_of(line))
                  /\ board[start_of(line)[1]][end_of(line)[2]]
                        = (IF turn_white THEN "p" ELSE "P")
             ELSE \A b \in Answers, sq \in Squares :
                     (sq # start_of(line) /\ board[sq[1]][sq[2]] # ".") =>
                        applied(line, b).board[sq[1]][sq[2]] # "."

\* black has just taken the white pawn that passed from e2 to e4: the black
\* pawn stands on e3, and d4 and e4 are empty
C17_Witness ==
    /\ moves = GameEnPassantBlack
    /\ outcome = "applied"
    /\ board[5][4] = "p" /\ board[4][4] = "." /\ board[4][3] = "."
    /\ Cardinality(squares_of("P")) = 7

\* the four shapes of a pawn move, for a pawn of the side turn_white
pawn_shape(start, end, white, target) ==
    LET forward == IF white THEN -1 ELSE 1
        home == IF white THEN 6 ELSE 1
        there == board[end[1]][end[2]]
    IN \/ /\ end = <<start[1] + forward, start[2]>>
          /\ there = "."
       \/ /\ start[1] = home
          /\ end = <<start[1] + 2 * forward, start[2]>>
          /\ board[start[1] + forward][start[2]] = "."
          /\ there = "."
       \/ /\ end[1] = start[1] + forward
          /\ abs(end[2] - start[2]) = 1
          /\ there # "."
          /\ is_white(there) # white
       \/ /\ end[1] = start[1] + forward
          /\ abs(end[2] - start[2]) = 1
          /\ there = "."
          /\ target = end

\* the en-passant targets tried: none, and each square of the two ranks
\* where a target can lie
Targets == {None} \cup {<<r, c>> : r \in {2, 5}, c \in Rows}

\* C18: valid_pawn_move accepts exactly four shapes: one step straight
\* forward onto an empty square; two steps straight forward from the home
\* rank when the intermediate and the destination square are empty; one
\* step diagonally forward onto an enemy piece; one step diagonally forward
\* onto an empty square equal to the en-passant target.  Every other pawn
\* move is rejected.
C18_PawnMoveShapes ==
    new_position =>
       \A start \in Squares :
          upper(board[start[1]][start[2]]) = "P" =>
             \A end \in Squares, target \in Targets :
                valid_pawn_move(board, start, end,
                                is_white(board[start[1]][start[2]]), target)
                   <=> pawn_shape(start, end,
                                  is_white(board[start[1]][start[2]]), target)

\* the white pawn on e5 beside the black pawn that has just passed to d5:
\* the step to e6 and the capture on d6 are accepted, the diagonal to f6 and
\* a step backward are not, and the pawn on a2 may advance two squares
C18_Witness ==
    /\ moves = SubSeq(GameEnPassantWhite, 1, 4)
    /\ en_passant_target = <<2, 3>>
    /\ valid_pawn_move(board, <<3, 4>>, <<2, 4>>, TRUE, en_passant_target)
    /\ valid_pawn_move(board, <<3, 4>>, <<2, 3>>, TRUE, en_passant_target)
    /\ ~valid_pawn_move(board, <<3, 4>>, <<2, 5>>, TRUE, en_passant_target)
    /\ ~valid_pawn_move(board, <<3, 4>>, <<4, 4>>, TRUE, en_passant_target)
    /\ valid_pawn_move(board, <<6, 0>>, <<4, 0>>, TRUE, en_passant_target)

\* C19: in every reachable state, if the en-passant target is set then the
\* target square is empty, it lies on the third rank of the side that has
\* just moved (row 5 when black is to move, row 2 when white is to move),
\* and the square directly beyond it on that side's fourth rank holds a
\* pawn of the side that has just moved.
C19_TargetBehindTheAdvancedPawn ==
    en_passant_target # None =>
       /\ board[en_passant_target[1]][en_passant_target[2]] = "."
       /\ en_passant_target[1] = (IF turn_white THEN 2 ELSE 5)
       /\ board[IF turn_white THEN 3 ELSE 4][en_passant_target[2]]
             = (IF turn_white THEN "p" ELSE "P")

\* black has answered a white move with d7-d5: the target is d6, behind the
\* black pawn on d5, with white to move
C19_Witness ==
    /\ moves = SubSeq(GameEnPassantBlack, 1, 2)
    /\ turn_white
    /\ en_passant_target = <<2, 3>>
    /\ board[3][3] = "p" /\ board[2][3] = "." /\ board[1][3] = "."

\* the pawns of the side to move that stand one step from their farthest rank
pawns_about_to_promote ==
    {sq \in Squares : /\ sq[1] = (IF turn_white THEN 1 ELSE 6)
                      /\ board[sq[1]][sq[2]] = (IF turn_white THEN "P" ELSE "p")}

\* the pieces of a color a pawn may be promoted to
promoted_pieces(color) ==
    IF color = "white" THEN PromotionPieces ELSE {lower(ch) : ch \in PromotionPieces}

\* C20: with a provider that answers queen, rook, bishop or knight, no pawn
\* of either color stands on row 0 or row 7 in any state reached from the
\* initial position; and in every position reached, every accepted move of
\* a pawn to its farthest rank leaves, in that same move, the answered piece
\* in the pawn's color on the destination.
C20_NoPawnOnTheFarthestRanks ==
    /\ \A c \in Rows : /\ board[0][c] \notin {"P", "p"}
                       /\ board[7][c] \notin {"P", "p"}
    /\ new_position =>
          \A line \in BoardLines :
             (/\ start_of(line) \in pawns_about_to_promote
              /\ end_of(line)[1] = (IF turn_white THEN 0 ELSE 7))
             => \A a \in Answers :
                   accepts(line, a) =>
                      LET piece == applied(line, a).board[end_of(line)[1]][end_of(line)[2]]
                      IN /\ piece = (IF turn_white THEN a ELSE lower(a))
                         /\ piece \in promoted_pieces(player_color)

\* white's pawn has just captured from a7 to b8 and a white piece of the
\* four stands there
C20_Witness ==
    /\ moves = SubSeq(GamePromotionWhite, 1, 9)
    /\ outcome = "applied"
    /\ board[0][1] \in promoted_pieces("white")
    /\ board[1][0] = "."

\* the lines that move a pawn of the side to move onto its farthest rank
promoting_lines ==
    {line \in BoardLines : /\ start_of(line) \in pawns_about_to_promote
                           /\ end_of(line)[1] = (IF turn_white THEN 0 ELSE 7)}

\* the board a promoting line leaves when the provider answers choice
promoted(line, choice) == applied(line, choice).board

\* C21: in every position reached, is_valid_move gives every line that
\* moves a pawn onto its farthest rank the same verdict whichever of queen,
\* rook, bishop or knight the provider answers in the simulation, the
\* simulated position is in check for the mover under one answer exactly
\* when it is under every other, and has_legal_move, is_checkmate and
\* is_stalemate of a color with a pawn one step from promotion give the same
\* verdict for every answer.
C21_VerdictsIgnoreTheProvidersAnswer ==
    new_position =>
       /\ \A line \in promoting_lines : \A a \in PromotionPieces :
             /\ accepts(line, a) = accepts(line, "Q")
             /\ in_check(promoted(line, a), player_color)
                   = in_check(promoted(line, "Q"), player_color)
       /\ \A color \in Colors :
             answers_for(color) = PromotionPieces =>
                \A a \in PromotionPieces :
                   /\ has_legal_move(board, color, castling_rights, en_passant_target, a).ok
                         = has_legal_move(board, color, castling_rights,
                                          en_passant_target, "Q").ok
                   /\ is_checkmate(board, color, castling_rights, en_passant_target, a).ok
                         = is_checkmate(board, color, castling_rights,
                                        en_passant_target, "Q").ok
                   /\ is_stalemate(board, color, castling_rights, en_passant_target, a).ok
                         = is_stalemate(board, color, castling_rights,
                                        en_passant_target, "Q").ok

\* white's pawn on c7 may take the queen on d8: as a queen it gives check to
\* the black king and as a knight it does not, and the move is accepted
\* under both answers
C21_Witness ==
    /\ moves = SubSeq(GamePromotionWithCheck, 1, 8)
    /\ new_position
    /\ L("c", 7, "d", 8) \in promoting_lines
    /\ accepts(L("c", 7, "d", 8), "Q") /\ accepts(L("c", 7, "d", 8), "N")
    /\ in_check(promoted(L("c", 7, "d", 8), "Q"), "black")
    /\ ~in_check(promoted(L("c", 7, "d", 8), "N"), "black")

\* whether a call of is_valid_move comes to the simulation of its move
\* ("temp = copy_board(board) ... if in_check(temp, piece_color)"): its
\* tests up to "if not checking_check" pass and checking_check is set
simulates(b, start, end, turn, target, rights, checking_check) ==
    passes_rules(b, start, end, turn, target, rights) /\ checking_check

\* the squares of the pieces of a color, the origins square_attacked_by tries
origins(color) ==
    {sq \in Squares : /\ board[sq[1]][sq[2]] # "."
                      /\ get_piece_color(board[sq[1]][sq[2]]) = color}

\* C22: the legality and terminal-state queries end with bounded call
\* nesting.  square_attacked_by calls is_valid_move in raw mode only
\* (checking_check false, castling_rights None, en_passant_target None);
\* and in every position reached, for every color, every target square and
\* every piece of that color, the raw call never comes to can_castle and
\* never comes to the simulation -- the only two places of is_valid_move
\* that call in_check or square_attacked_by -- so that its verdict is that
\* of the tests before them alone and it calls nothing further.
C22_RawModeEndsTheNesting ==
    /\ raw_mode.checking_check = FALSE
    /\ raw_mode.castling_rights = None
    /\ raw_mode.en_passant_target = None
    /\ new_position =>
          \A color \in Colors : \A start \in origins(color) : \A end \in Squares :
             /\ ~asks_can_castle(board, start, end, color = "white",
                                 raw_mode.castling_rights)
             /\ ~simulates(board, start, end, color = "white",
                           raw_mode.en_passant_target, raw_mode.castling_rights,
                           raw_mode.checking_check)
             /\ is_valid_move(board, start, end, color = "white",
                              raw_mode.en_passant_target, raw_mode.castling_rights,
                              raw_mode.checking_check, NoChoice)
                   = Verdict(passes_rules(board, start, end, color = "white",
                                          raw_mode.en_passant_target,
                                          raw_mode.castling_rights),
                             board, raw_mode.castling_rights, 0)

\* white may castle on the king's side: the full-mode call for e1-g1 comes
\* to can_castle and to the simulation, the raw call for the same squares
\* comes to neither and answers no; the raw call for the knight's move f3-e5
\* answers yes without a simulation
C22_Witness ==
    /\ moves = SubSeq(GameCastleKingSide, 1, 6)
    /\ new_position
    /\ asks_can_castle(board, <<7, 4>>, <<7, 6>>, TRUE, castling_rights)
    /\ simulates(board, <<7, 4>>, <<7, 6>>, TRUE, en_passant_target, castling_rights, TRUE)
    /\ ~asks_can_castle(board, <<7, 4>>, <<7, 6>>, TRUE, raw_mode.castling_rights)
    /\ ~is_valid_move(board, <<7, 4>>, <<7, 6>>, TRUE, raw_mode.en_passant_target,
                      raw_mode.castling_rights, raw_mode.checking_check, NoChoice).ok
    /\ is_valid_move(board, <<5, 5>>, <<3, 4>>, TRUE, raw_mode.en_passant_target,
                     raw_mode.castling_rights, raw_mode.checking_check, NoChoice).ok
    /\ ~simulates(board, <<5, 5>>, <<3, 4>>, TRUE, raw_mode.en_passant_target,
                  raw_mode.castling_rights, raw_mode.checking_check)

\* the directions of the rook's and of the bishop's lines
straight_lines == {<<1, 0>>, <<-1, 0>>, <<0, 1>>, <<0, -1>>}
diagonal_lines == {<<1, 1>>, <<1, -1>>, <<-1, 1>>, <<-1, -1>>}

\* t is a knight's jump, and a king's step, away from sq
knight_jump(sq, t) == {abs(t[1] - sq[1]), abs(t[2] - sq[2])} = {1, 2}
king_step(sq, t) == t # sq /\ abs(t[1] - sq[1]) <= 1 /\ abs(t[2] - sq[2]) <= 1

\* the squares of the board a knight's jump, and a king's step, away from sq
knight_jumps(sq) == {t \in Squares : knight_jump(sq, t)}
king_steps(sq) == {t \in Squares : king_step(sq, t)}

\* a table entry lists exactly the squares of a set, each once
lists_exactly(entry, squares) ==
    /\ {entry[i] : i \in 1..Len(entry)} = squares
    /\ Len(entry) = Cardinality(squares)

\* ray lists the squares from sq in direction d up to the edge of the
\* board, nearest first
runs_to_the_edge(ray, sq, d) ==
    /\ \A k \in 1..Len(ray) :
          /\ ray[k] = <<sq[1] + k * d[1], sq[2] + k * d[2]>>
          /\ ray[k] \in Squares
    /\ <<sq[1] + (Len(ray) + 1) * d[1], sq[2] + (Len(ray) + 1) * d[2]>> \notin Squares

\* the rays of a table entry are the lines from sq in the given directions,
\* one ray for each direction
rays_along(rays, sq, directions) ==
    /\ Len(rays) = Cardinality(directions)
    /\ \A d \in directions :
          Cardinality({i \in 1..Len(rays) : runs_to_the_edge(rays[i], sq, d)}) >= 1
    /\ \A i \in 1..Len(rays) : \E d \in directions : runs_to_the_edge(rays[i], sq, d)

Corners == {<<0, 0>>, <<0, 7>>, <<7, 0>>, <<7, 7>>}

\* the four tables hold, for each of the 64 squares, exactly the knight's
\* jumps, the king's steps and the straight and diagonal lines to the edge
tables_are_exact ==
    /\ DOMAIN KNIGHT_MOVES = Squares /\ DOMAIN KING_MOVES = Squares
    /\ DOMAIN ROOK_SLIDES = Squares /\ DOMAIN BISHOP_SLIDES = Squares
    /\ Cardinality(Squares) = 64
    /\ \A sq \in Squares :
          /\ lists_exactly(KNIGHT_MOVES[sq], knight_jumps(sq))
          /\ lists_exactly(KING_MOVES[sq], king_steps(sq))
          /\ Len(KNIGHT_MOVES[sq]) <= 8 /\ Len(KING_MOVES[sq]) <= 8
          /\ rays_along(ROOK_SLIDES[sq], sq, straight_lines)
          /\ rays_along(BISHOP_SLIDES[sq], sq, diagonal_lines)
    /\ \A sq \in Corners :
          Len(KNIGHT_MOVES[sq]) = 2 /\ Len(KING_MOVES[sq]) = 3

\* C23: for every one of the 64 squares, KNIGHT_MOVES[sq] and KING_MOVES[sq]
\* contain exactly the in-bounds squares at the knight offsets and at the
\* eight adjacent offsets, without duplicates: at most 8 entries each, 2 for
\* a knight in a corner and 3 for a king in a corner; and each ray of
\* ROOK_SLIDES[sq] and BISHOP_SLIDES[sq] lists the squares from sq to the
\* edge of the board in order, nearest first.  In every state reached
\* the piece rules accordingly let each knight and each king on the board
\* go, castling apart, to exactly those squares.
C23_MoveTablesAreExact ==
    /\ tables_are_exact
    /\ \A sq \in Squares :
          /\ upper(board[sq[1]][sq[2]]) = "N" =>
                \A end \in Squares :
                   piece_rules(board, sq, end, is_white(board[sq[1]][sq[2]]), None, None)
                      <=> knight_jump(sq, end)
          /\ upper(board[sq[1]][sq[2]]) = "K" =>
                \A end \in Squares :
                   piece_rules(board, sq, end, is_white(board[sq[1]][sq[2]]), None, None)
                      <=> king_step(sq, end)

\* white's knight has gone from g1 to f3 by its table: from the edge square
\* g1 the table holds three squares; the corner h1 holds two for a knight
\* and three for a king, and the rook's ray from h1 up the file lists h2 to
\* h8 in that order
C23_Witness ==
    /\ moves = <<L("g", 1, "f", 3)>>
    /\ board[5][5] = "N"
    /\ InSeq(<<5, 5>>, KNIGHT_MOVES[<<7, 6>>])
    /\ Len(KNIGHT_MOVES[<<7, 6>>]) = 3
    /\ Len(KNIGHT_MOVES[<<7, 7>>]) = 2 /\ Len(KING_MOVES[<<7, 7>>]) = 3
    /\ Len(KNIGHT_MOVES[<<4, 4>>]) = 8 /\ Len(KING_MOVES[<<4, 4>>]) = 8
    /\ ROOK_SLIDES[<<7, 7>>][2]
          = << <<6, 7>>, <<5, 7>>, <<4, 7>>, <<3, 7>>, <<2, 7>>, <<1, 7>>, <<0, 7>> >>
    /\ BISHOP_SLIDES[<<7, 7>>][1] = <<>>
=============================================================================
